---- MODULE Spec2Model ----
(***************************************************************************)
(* scripts/gen-docs.py: the documentation generator of url-cleaner.       *)
(*                                                                         *)
(* The script reads engine/src/cleaner/bundled-cleaner.json, takes the     *)
(* value under "docs", deletes its "name" and "description" keys and walks *)
(* the rest depth first with thing(x, 3), printing a heading per mapping,  *)
(* a bullet per string and the elements of a list verbatim.  The module    *)
(* variable "last" holds the type of the last value rendered.              *)
(*                                                                         *)
(* Text is a sequence of one-character strings; a JSON object is the       *)
(* sequence of its <<key, value>> pairs in insertion order (a Python dict  *)
(* iterates in that order); "out" is the sequence of the texts handed to   *)
(* print(), one per call, in call order (no text of the model holds a      *)
(* line terminator, so one print() is one output line).  One step of the   *)
(* model is one iteration of the loop of thing (for a mapping: up to the   *)
(* recursive call), one return of thing, or one statement of the module    *)
(* body.                                                                   *)
(***************************************************************************)
EXTENDS Integers, Sequences, FiniteSets, TLC

VARIABLES file, pc, x, stack, last, out, err, outs

vars == <<file, pc, x, stack, last, out, err, outs>>

-----------------------------------------------------------------------------
(* Bounds of the model. *)

\* most entries (at all levels together) of the content of a document
MaxNodes == 3
\* most elements of a list value
MaxList == 2
\* longest key of the documents that exercise the heading text
MaxKeyLen == 3
\* invocations of the script on one file
MaxRuns == 2

\* thing(x, 3): the heading level of the root mapping
StartDepth == 3

-----------------------------------------------------------------------------
(* Text. *)

LowerCase ==
  <<"a","b","c","d","e","f","g","h","i","j","k","l","m",
    "n","o","p","q","r","s","t","u","v","w","x","y","z">>

UpperCase ==
  <<"A","B","C","D","E","F","G","H","I","J","K","L","M",
    "N","O","P","Q","R","S","T","U","V","W","X","Y","Z">>

IsLower(c) == \E j \in 1..26 : LowerCase[j] = c

IsUpper(c) == \E j \in 1..26 : UpperCase[j] = c

IsCased(c) == IsLower(c) \/ IsUpper(c)

Upper(c) == IF IsLower(c) THEN UpperCase[CHOOSE j \in 1..26 : LowerCase[j] = c] ELSE c

Lower(c) == IF IsUpper(c) THEN LowerCase[CHOOSE j \in 1..26 : UpperCase[j] = c] ELSE c

\* s.replace(old, new) for one-character old and new
Replace(s, old, new) == [p \in 1..Len(s) |-> IF s[p] = old THEN new ELSE s[p]]

\* str.capitalize(): first character upper case, the rest lower case
Capitalize(s) == [p \in 1..Len(s) |-> IF p = 1 THEN Upper(s[p]) ELSE Lower(s[p])]

\* str.title(): one pass, left to right; a cased character is upper-cased when
\* the character before it is uncased (or there is none), lower-cased otherwise
RECURSIVE TitleFrom(_, _, _)
TitleFrom(s, p, prevCased) ==
  IF p > Len(s) THEN <<>>
  ELSE LET c == s[p]
       IN  << IF IsCased(c) THEN (IF prevCased THEN Lower(c) ELSE Upper(c)) ELSE c >>
             \o TitleFrom(s, p + 1, IsCased(c))

Title(s) == TitleFrom(s, 1, FALSE)

\* "#" * i
Hashes(i) == [p \in 1..i |-> "#"]

\* the text of print() with no argument
Blank == <<>>

\* k.replace("_", " ").capitalize()
HeadingTextCapitalize(k) == Capitalize(Replace(k, "_", " "))

\* k.replace("_", " ").title()
HeadingText(k) == Title(Replace(k, "_", " "))

\* the text of print("#"*i, k.replace("_", " ").title()): the two arguments
\* joined by one space
Heading(i, k) == Hashes(i) \o <<" ">> \o HeadingText(k)

\* the backquote character (U+0060), which a TLA+ string cannot hold
Backquote == "BACKQUOTE"

\* the f-string with key and value exchanged
BulletSwapped(k, v) == <<"-", " ", Backquote>> \o v \o <<Backquote, ":", " ">> \o k

\* the f-string of the bullet line: "- ", the key between backquotes, ": ", the value
Bullet(k, v) == <<"-", " ", Backquote>> \o k \o <<Backquote, ":", " ">> \o v

-----------------------------------------------------------------------------
(* JSON values, by the isinstance test that thing makes of them. *)

DictV(m) == [t |-> "dict", m |-> m, s |-> <<>>, l |-> <<>>]

StrV(s) == [t |-> "str", m |-> <<>>, s |-> s, l |-> <<>>]

ListV(l) == [t |-> "list", m |-> <<>>, s |-> <<>>, l |-> l]

\* a number, a boolean or null
OtherV == [t |-> "other", m |-> <<>>, s |-> <<>>, l |-> <<>>]

NAME == <<"n","a","m","e">>

DESCRIPTION == <<"d","e","s","c","r","i","p","t","i","o","n">>

HasKey(m, k) == \E j \in 1..Len(m) : m[j][1] = k

\* del m[k], for a key that m has
Del(m, k) == SelectSeq(m, LAMBDA e : e[1] # k)

-----------------------------------------------------------------------------
(* The files the script is run on. *)

KeyBase == << <<"a","_","b">>, <<"c">>, <<"d","_","e">>, <<"f">> >>

\* the key of the p-th entry of a mapping: the keys of one mapping differ
KeyAt(p) ==
  KeyBase[((p - 1) % Len(KeyBase)) + 1] \o [q \in 1..((p - 1) \div Len(KeyBase)) |-> "x"]

\* the j-th element of a list value
LineAt(j) == <<"r">> \o [q \in 1..j |-> "i"]

LeafValues ==
  {StrV(<<"v">>), OtherV} \cup {ListV([j \in 1..n |-> LineAt(j)]) : n \in 0..MaxList}

\* the mapping whose values, in order, are vs
Keyed(vs) == [p \in 1..Len(vs) |-> <<KeyAt(p), vs[p]>>]

\* Trees(n): the values of n entries in all, the entry of the value included;
\* Forests(n): the sequences of values of n entries in all
RECURSIVE Trees(_), Forests(_)
Trees(n) ==
  (IF n = 1 THEN LeafValues ELSE {}) \cup {DictV(Keyed(f)) : f \in Forests(n - 1)}

Forests(n) ==
  IF n = 0 THEN {<<>>}
  ELSE UNION {{<<v>> \o f : v \in Trees(k), f \in Forests(n - k)} : k \in 1..n}

Contents == {Keyed(f) : f \in UNION {Forests(n) : n \in 0..MaxNodes}}

NameEntry == <<NAME, StrV(<<"n">>)>>

DescriptionEntry == <<DESCRIPTION, StrV(<<"d">>)>>

\* a content with both metadata keys, or with one or both of them missing
ShapeDocs ==
  UNION {{<<NameEntry>> \o c \o <<DescriptionEntry>>,
          c \o <<DescriptionEntry>>,
          <<NameEntry>> \o c,
          c} : c \in Contents}

KeyAlphabet == {"a", "B", "_", "1"}

RECURSIVE KeysOfLen(_)
KeysOfLen(n) ==
  IF n = 0 THEN {<<>>} ELSE {<<c>> \o k : c \in KeyAlphabet, k \in KeysOfLen(n - 1)}

\* one section, under every key of at most MaxKeyLen characters
KeyDocs ==
  {<<DescriptionEntry, <<k, DictV(<<>>)>>, NameEntry>> :
     k \in UNION {KeysOfLen(n) : n \in 0..MaxKeyLen}}

Docs == ShapeDocs \cup KeyDocs

FileV(kind, docs) == [kind |-> kind, docs |-> docs]

\* no file, a file that is not JSON, a JSON object without "docs", a JSON
\* object with "docs"
Files ==
  {FileV("absent", <<>>), FileV("invalid", <<>>), FileV("nodocs", <<>>)}
    \cup {FileV("ok", d) : d \in Docs}

-----------------------------------------------------------------------------
(* The script. *)

Frame(m, i) == [m |-> m, idx |-> 1, i |-> i]

Init ==
  /\ file \in Files
  /\ pc = "open"
  /\ x = <<>>
  /\ stack = <<>>
  /\ last = "None"
  /\ out = <<>>
  /\ err = "none"
  /\ outs = <<>>

Fail(e) ==
  /\ pc' = "failed"
  /\ err' = e

\* with open(...) as f: x = json.loads(f.read())["docs"]
Load ==
  /\ pc = "open"
  /\ IF file.kind = "ok"
       THEN /\ x' = file.docs
            /\ pc' = "del_name"
            /\ err' = err
       ELSE /\ x' = x
            /\ Fail(CASE file.kind = "absent" -> "FileNotFoundError"
                      [] file.kind = "invalid" -> "JSONDecodeError"
                      [] OTHER -> "KeyError")
  /\ UNCHANGED <<file, stack, last, out, outs>>

\* x.pop(k, None), going on at pc = next
DelKeyLenient(k, next) ==
  /\ x' = Del(x, k)
  /\ pc' = next
  /\ err' = err

\* del x[k], going on at pc = next
DelKey(k, next) ==
  IF HasKey(x, k)
    THEN /\ x' = Del(x, k)
         /\ pc' = next
         /\ err' = err
    ELSE /\ x' = x
         /\ Fail("KeyError")

\* del x["name"]
DelName ==
  /\ pc = "del_name"
  /\ DelKey(NAME, "del_description")
  /\ UNCHANGED <<file, stack, last, out, outs>>

\* del x["description"]
DelDescription ==
  /\ pc = "del_description"
  /\ DelKey(DESCRIPTION, "call")
  /\ UNCHANGED <<file, stack, last, out, outs>>

\* thing(x, 3)
CallThing ==
  /\ pc = "call"
  /\ stack' = <<Frame(x, StartDepth)>>
  /\ pc' = "thing"
  /\ UNCHANGED <<file, x, last, out, err, outs>>

\* the running call of thing, the entry its loop is at, and the state of the
\* callers once the loop has taken that entry
Top == stack[Len(stack)]

AtEntry == pc = "thing" /\ stack # <<>> /\ Top.idx <= Len(Top.m)

CurK == Top.m[Top.idx][1]

CurV == Top.m[Top.idx][2]

Advanced == [stack EXCEPT ![Len(stack)].idx = @ + 1]

\* last == dict
NeedsSeparatorAfterGroup(l) == l = "dict"

\* last is not None
NeedsSeparatorAfterAny(l) == l # "None"

\* last is not None and last != dict
NeedsSeparator(l) == l # "None" /\ l # "dict"

\* for line in reversed(v): print(line)
RECURSIVE EmitEachReversed(_, _)
EmitEachReversed(o, l) ==
  IF l = <<>> THEN o ELSE EmitEachReversed(Append(o, l[Len(l)]), SubSeq(l, 1, Len(l) - 1))

\* for line in v: print(line)
RECURSIVE EmitEach(_, _)
EmitEach(o, l) == IF l = <<>> THEN o ELSE EmitEach(Append(o, Head(l)), Tail(l))

\* thing(v, i): the depth is passed on as it is
ChildDepthSame(i) == i

\* thing(v, i+1)
ChildDepth(i) == i + 1

\* isinstance(v, dict)
GroupEntry ==
  /\ AtEntry
  /\ CurV.t = "dict"
  /\ out' = out \o (IF NeedsSeparator(last) THEN <<Blank>> ELSE <<>>)
                \o <<Heading(Top.i, CurK), Blank>>
  /\ last' = "dict"
  /\ stack' = Append(Advanced, Frame(CurV.m, ChildDepth(Top.i)))
  /\ UNCHANGED <<file, pc, x, err, outs>>

\* isinstance(v, str)
OptionEntry ==
  /\ AtEntry
  /\ CurV.t = "str"
  /\ out' = Append(out, Bullet(CurK, CurV.s))
  /\ last' = "str"
  /\ stack' = Advanced
  /\ UNCHANGED <<file, pc, x, err, outs>>

\* isinstance(v, list)
RawLinesEntry ==
  /\ AtEntry
  /\ CurV.t = "list"
  /\ out' = EmitEach(out, CurV.l)
  /\ last' = "list"
  /\ stack' = Advanced
  /\ UNCHANGED <<file, pc, x, err, outs>>

\* an else branch that records the type: last = type(v)
OtherEntryRecorded ==
  /\ AtEntry
  /\ CurV.t = "other"
  /\ stack' = Advanced
  /\ last' = "other"
  /\ UNCHANGED <<file, pc, x, out, err, outs>>

\* no branch of the if chain is taken
OtherEntry ==
  /\ AtEntry
  /\ CurV.t = "other"
  /\ stack' = Advanced
  /\ UNCHANGED <<file, pc, x, last, out, err, outs>>

\* a return that resets last
ReturnResetting ==
  /\ pc = "thing"
  /\ stack # <<>>
  /\ Top.idx > Len(Top.m)
  /\ stack' = SubSeq(stack, 1, Len(stack) - 1)
  /\ pc' = IF Len(stack) = 1 THEN "done" ELSE "thing"
  /\ last' = "None"
  /\ UNCHANGED <<file, x, out, err, outs>>

\* the loop of the running call is over: the call returns
Return ==
  /\ pc = "thing"
  /\ stack # <<>>
  /\ Top.idx > Len(Top.m)
  /\ stack' = SubSeq(stack, 1, Len(stack) - 1)
  /\ pc' = IF Len(stack) = 1 THEN "done" ELSE "thing"
  /\ UNCHANGED <<file, x, last, out, err, outs>>

\* a second run that finds last as the first run left it
RerunKeepingLast ==
  /\ pc \in {"done", "failed"}
  /\ Len(outs) + 1 < MaxRuns
  /\ outs' = Append(outs, [out |-> out, err |-> err])
  /\ pc' = "open"
  /\ x' = <<>>
  /\ stack' = <<>>
  /\ out' = <<>>
  /\ err' = "none"
  /\ UNCHANGED <<file, last>>

\* the process has ended and the script is run again on the same file: a new
\* process, whose module body starts with last = None
Rerun ==
  /\ pc \in {"done", "failed"}
  /\ Len(outs) + 1 < MaxRuns
  /\ outs' = Append(outs, [out |-> out, err |-> err])
  /\ pc' = "open"
  /\ x' = <<>>
  /\ stack' = <<>>
  /\ last' = "None"
  /\ out' = <<>>
  /\ err' = "none"
  /\ UNCHANGED file

Next ==
  \/ Load
  \/ DelName
  \/ DelDescription
  \/ CallThing
  \/ GroupEntry
  \/ OptionEntry
  \/ RawLinesEntry
  \/ OtherEntry
  \/ Return
  \/ Rerun

Spec == Init /\ [][Next]_vars

-----------------------------------------------------------------------------
(* thing as a function: the lines printed and the value of last once       *)
(* thing(m, i) has returned, from the lines and the value of last at the   *)
(* call.                                                                    *)

RECURSIVE thing(_, _, _)
thing(m, i, st) ==
  IF m = <<>> THEN st
  ELSE LET k == m[1][1]
           v == m[1][2]
           st1 ==
             CASE v.t = "dict" ->
                    thing(v.m, i + 1,
                          [out |-> st.out
                                     \o (IF NeedsSeparator(st.last) THEN <<Blank>> ELSE <<>>)
                                     \o <<Heading(i, k), Blank>>,
                           last |-> "dict"])
               [] v.t = "str" -> [out |-> Append(st.out, Bullet(k, v.s)), last |-> "str"]
               [] v.t = "list" -> [out |-> EmitEach(st.out, v.l), last |-> "list"]
               [] OTHER -> st
       IN  thing(Tail(m), i, st1)

-----------------------------------------------------------------------------
(* Vocabulary of the properties. *)

AtGroup == AtEntry /\ CurV.t = "dict"

\* the number of "#" a line starts with
RECURSIVE LeadingHashes(_)
LeadingHashes(line) ==
  IF line # <<>> /\ Head(line) = "#" THEN 1 + LeadingHashes(Tail(line)) ELSE 0

IsHeadingLine(line) == line # <<>> /\ line[1] = "#"

IsBulletLine(line) ==
  Len(line) >= 3 /\ line[1] = "-" /\ line[2] = " " /\ line[3] = Backquote

\* a state right after the loop took a Group entry: the call for its mapping
\* has been pushed and has taken no entry yet
JustEnteredGroup == pc = "thing" /\ Len(stack) >= 2 /\ Top.idx = 1

\* in such a state, the call that took the entry, the key of the entry, and
\* the heading line printed for it
Caller == stack[Len(stack) - 1]

EnteredKey == Caller.m[Caller.idx - 1][1]

EnteredHeading == out[Len(out) - 1]

\* the kinds of the supported entries of m, in depth-first order
RECURSIVE FlatKinds(_)
FlatKinds(m) ==
  IF m = <<>> THEN <<>>
  ELSE LET v == m[1][2]
       IN  (CASE v.t = "dict" -> <<"dict">> \o FlatKinds(v.m)
              [] v.t \in {"str", "list"} -> <<v.t>>
              [] OTHER -> <<>>)
             \o FlatKinds(Tail(m))

\* the kinds of the entries the calls on the stack fs (outermost first) have
\* taken so far, in depth-first order
RECURSIVE Visited(_)
Visited(fs) ==
  IF fs = <<>> THEN <<>>
  ELSE LET f == fs[1]
       IN  IF Len(fs) = 1
             THEN FlatKinds(SubSeq(f.m, 1, f.idx - 1))
             ELSE FlatKinds(SubSeq(f.m, 1, f.idx - 2)) \o <<"dict">> \o Visited(Tail(fs))

LastKind(ks) == IF ks = <<>> THEN "None" ELSE ks[Len(ks)]

\* every value of m, at every level, is a mapping or a string
RECURSIVE OnlyGroupsAndOptions(_)
OnlyGroupsAndOptions(m) ==
  \A j \in 1..Len(m) :
    \/ m[j][2].t = "str"
    \/ m[j][2].t = "dict" /\ OnlyGroupsAndOptions(m[j][2].m)

\* the bullet lines of the string leaves of m, in depth-first key order
RECURSIVE LeafBullets(_)
LeafBullets(m) ==
  IF m = <<>> THEN <<>>
  ELSE LET k == m[1][1]
           v == m[1][2]
       IN  (CASE v.t = "str" -> << <<"-", " ", Backquote>> \o k \o <<Backquote, ":", " ">> \o v.s >>
              [] v.t = "dict" -> LeafBullets(v.m)
              [] OTHER -> <<>>)
             \o LeafBullets(Tail(m))

\* m without its entries of unsupported kind, at every level
RECURSIVE Strip(_)
Strip(m) ==
  IF m = <<>> THEN <<>>
  ELSE LET k == m[1][1]
           v == m[1][2]
       IN  (CASE v.t = "other" -> <<>>
              [] v.t = "dict" -> << <<k, DictV(Strip(v.m))>> >>
              [] OTHER -> << <<k, v>> >>)
             \o Strip(Tail(m))

\* some value of m, at some level, is of unsupported kind
RECURSIVE HasOther(_)
HasOther(m) ==
  \E j \in 1..Len(m) :
    \/ m[j][2].t = "other"
    \/ m[j][2].t = "dict" /\ HasOther(m[j][2].m)

\* t is k with every "_" replaced by " ", every cased character that follows
\* an uncased one (or none) in upper case and every other cased one in lower case
TitleLaw(k, t) ==
  /\ Len(t) = Len(k)
  /\ \A p \in 1..Len(k) :
       /\ k[p] = "_" => t[p] = " "
       /\ (k[p] # "_" /\ ~IsCased(k[p])) => t[p] = k[p]
       /\ (IsCased(k[p]) /\ (p = 1 \/ ~IsCased(k[p - 1]))) => t[p] = Upper(k[p])
       /\ (IsCased(k[p]) /\ p > 1 /\ IsCased(k[p - 1])) => t[p] = Lower(k[p])
       /\ (IsCased(k[p]) /\ (p = 1 \/ k[p - 1] = "_")) => IsUpper(t[p])

MissingMetadata ==
  file.kind = "ok" /\ ~(HasKey(file.docs, NAME) /\ HasKey(file.docs, DESCRIPTION))

-----------------------------------------------------------------------------
(* The properties. *)

\* C1, as the specification states it: when the loop takes a Group entry and
\* last is Group, one blank separator line is printed right before the heading.
C1_SeparatorAfterGroup ==
  [][(AtGroup /\ last = "dict")
       => out' = out \o <<Blank, Heading(Top.i, CurK), Blank>>]_vars

\* C1, amended: when the loop takes a Group entry and last is Option or
\* RawLines, one blank separator line is printed right before the heading, at
\* every level of the recursion.
C1_SeparatorAfterLeaf ==
  [][(AtGroup /\ last \in {"str", "list"})
       => out' = out \o <<Blank, Heading(Top.i, CurK), Blank>>]_vars

\* a nested Group entered right after an Option: bullet, separator, heading, blank
C1_Witness ==
  /\ JustEnteredGroup
  /\ Len(stack) >= 3
  /\ Len(out) >= 4
  /\ IsBulletLine(out[Len(out) - 3])
  /\ out[Len(out) - 2] = Blank
  /\ IsHeadingLine(EnteredHeading)
  /\ out[Len(out)] = Blank

\* C2, as the specification states it: no separator is printed before a heading
\* unless last is Group (none at the first emission, none after an Option or a
\* RawLines entry).
C2_NoSeparatorUnlessAfterGroup ==
  [][(AtGroup /\ last # "dict")
       => out' = out \o <<Heading(Top.i, CurK), Blank>>]_vars

\* C2, amended: no separator is printed before a heading unless last is Option
\* or RawLines: none at the first emission (last is None) and none when the
\* emission before was a Group.
C2_NoSeparatorUnlessAfterLeaf ==
  [][(AtGroup /\ last \in {"None", "dict"})
       => out' = out \o <<Heading(Top.i, CurK), Blank>>]_vars

\* a Group entered right after a Group: heading, blank, heading, blank
C2_Witness ==
  /\ JustEnteredGroup
  /\ Len(out) >= 4
  /\ IsHeadingLine(out[Len(out) - 3])
  /\ out[Len(out) - 2] = Blank
  /\ IsHeadingLine(EnteredHeading)
  /\ out[Len(out)] = Blank

\* C3: the call for a mapping nested d levels below the root runs with depth
\* 3 + d, and the heading of a Group entry of that mapping starts with exactly
\* 3 + d "#".
C3_HeadingDepth ==
  /\ [](\A j \in 1..Len(stack) : stack[j].i = StartDepth + (j - 1))
  /\ [][AtGroup
          => LeadingHashes(out'[Len(out') - 1]) = StartDepth + (Len(stack) - 1)]_vars

\* a Group two levels below the root has been entered
C3_Witness ==
  /\ JustEnteredGroup
  /\ Len(stack) = 4
  /\ LeadingHashes(EnteredHeading) = StartDepth + 2

\* C4: when every leaf of the content is a string, the bullet lines of the
\* output are the bullet lines of the leaves, one each, in depth-first key order.
C4_BulletsAreLeaves ==
  (pc = "done" /\ OnlyGroupsAndOptions(x))
    => SelectSeq(out, IsBulletLine) = LeafBullets(x)

\* a finished run with leaves at two levels
C4_Witness ==
  /\ pc = "done"
  /\ OnlyGroupsAndOptions(x)
  /\ Len(LeafBullets(x)) >= 2
  /\ \E j \in 1..Len(x) : x[j][2].t = "dict" /\ x[j][2].m # <<>>
  /\ \E j \in 1..Len(x) : x[j][2].t = "str"

\* C5: when "name" or "description" is missing under "docs", the run never
\* gets to render: it prints nothing, and when it has stopped it has failed
\* with the error of the missing key.
C5_MissingMetadataFails ==
  MissingMetadata
    => /\ out = <<>>
       /\ stack = <<>>
       /\ pc \in {"open", "del_name", "del_description", "failed"}
       /\ pc = "del_description" => ~HasKey(file.docs, DESCRIPTION)
       /\ pc = "failed" => err = "KeyError"

\* a run on a document with content and "name" but no "description" has failed
C5_Witness ==
  /\ file.kind = "ok"
  /\ HasKey(file.docs, NAME)
  /\ ~HasKey(file.docs, DESCRIPTION)
  /\ Len(file.docs) >= 3
  /\ pc = "failed"
  /\ err = "KeyError"

\* C6: the heading of a Group is its depth marker, one space, and the key with
\* every underscore replaced by a space and title-cased.
C6_HeadingText ==
  JustEnteredGroup
    => /\ SubSeq(EnteredHeading, 1, Caller.i + 1) = Hashes(Caller.i) \o <<" ">>
       /\ TitleLaw(EnteredKey, SubSeq(EnteredHeading, Caller.i + 2, Len(EnteredHeading)))

\* the key a_a has been rendered as "### A A"
C6_Witness ==
  /\ JustEnteredGroup
  /\ EnteredKey = <<"a", "_", "a">>
  /\ EnteredHeading = <<"#", "#", "#", " ", "A", " ", "A">>

C8_LastIsLastKind ==
  /\ pc \in {"open", "del_name", "del_description", "call", "failed"} => last = "None"
  /\ pc = "thing" => last = LastKind(Visited(stack))
  /\ pc = "done" => last = LastKind(FlatKinds(x))

\* back in the root call after a Group that ends with an Option
C8_Witness ==
  /\ pc = "thing"
  /\ Len(stack) = 1
  /\ Top.idx = 2
  /\ Top.m[1][2].t = "dict"
  /\ last = "str"

\* C9: a RawLines entry adds its elements to the output, one line each,
\* unchanged, in order, and nothing else.
C9_RawLinesVerbatim ==
  [][(AtEntry /\ CurV.t = "list")
       => /\ Len(out') = Len(out) + Len(CurV.l)
          /\ SubSeq(out', 1, Len(out)) = out
          /\ \A j \in 1..Len(CurV.l) : out'[Len(out) + j] = CurV.l[j]]_vars

\* a RawLines entry of two elements has just been rendered
C9_Witness ==
  /\ pc = "thing"
  /\ last = "list"
  /\ Top.idx >= 2
  /\ Top.m[Top.idx - 1][2].t = "list"
  /\ Len(Top.m[Top.idx - 1][2].l) = 2
  /\ Len(out) >= 3
  /\ out[Len(out) - 1] = LineAt(1)
  /\ out[Len(out)] = LineAt(2)

\* C10: an entry of unsupported kind prints nothing, leaves last alone, raises
\* nothing and the loop goes on with the next key; the output of a finished
\* run is the output for the content without such entries.
C10_UnsupportedSkipped ==
  /\ [][(AtEntry /\ CurV.t = "other")
          => /\ out' = out
             /\ last' = last
             /\ pc' = "thing"
             /\ err' = "none"
             /\ stack' = Advanced]_vars
  /\ [](pc = "done"
          => out = thing(Strip(x), StartDepth, [out |-> <<>>, last |-> "None"]).out)

\* a finished run whose content had an unsupported entry between an Option and
\* a Group
C10_Witness ==
  /\ pc = "done"
  /\ Len(x) = 3
  /\ x[1][2].t = "str"
  /\ x[2][2].t = "other"
  /\ x[3][2].t = "dict"
  /\ Len(out) = 4

====
